---- MODULE Spec2Model ----
(***************************************************************************)
(* A model of the in-memory workflow engine (app/engine.py) together with  *)
(* the node registry (app/registry.py) and the data model (app/model.py).  *)
(*                                                                         *)
(* Python values are represented as follows:                               *)
(*   - None as an Optional[NodeName] is the string Null;                   *)
(*   - a dict is a function whose DOMAIN is the set of its keys;           *)
(*   - an Optional[dict] is a sequence of length 0 (None) or 1;            *)
(*   - a state value is a record [t, s]: its Python type and its str();    *)
(*   - a list is a record [t, ref]: a reference to an object of the heap,  *)
(*     so that two dicts can hold the same list;                           *)
(*   - an exception message is a record [kind, detail]: the fixed text of  *)
(*     the message and the sequence of the values formatted into it.       *)
(***************************************************************************)
EXTENDS Integers, Sequences, FiniteSets, TLC

VARIABLES
    node_registry,  \* registry.NODE_REGISTRY / WorkflowEngine.node_registry
    graphs,         \* WorkflowEngine.graphs : graph id -> Graph
    runs,           \* WorkflowEngine.runs   : run id -> Run
    frames,         \* run id -> the local variables of its run_graph call
    ret,            \* what the most recent engine/registry call returned or raised
    submitted,      \* history: graph id -> the payload create_graph stored it from
    heap            \* the list objects state values refer to: reference -> items

vars == <<node_registry, graphs, runs, frames, ret, submitted, heap>>

-----------------------------------------------------------------------------
(* Python values *)

Null == "null"

Empty == [x \in {} |-> x]

PartialFns(D, R) == UNION {[S -> R] : S \in SUBSET D}

\* dict.get(key) with the default None
Get(d, k) == IF k \in DOMAIN d THEN d[k] ELSE Null

\* d[k] = v on a dict
Put(d, k, v) == [x \in DOMAIN d \cup {k} |-> IF x = k THEN v ELSE d[x]]

VTrue  == [t |-> "bool", s |-> "True"]
VFalse == [t |-> "bool", s |-> "False"]
VOne   == [t |-> "int",  s |-> "1"]
VEmpty == [t |-> "str",  s |-> ""]

\* the int n, and the number an int value stands for (counters stay below 10)
IntVal(n) == [t |-> "int", s |-> ToString(n)]

IntOf(v) == CHOOSE n \in 0..9 : ToString(n) = v.s

\* a reference to the list object ref
ListRef(ref) == [t |-> "list", ref |-> ref]

NoError == [kind |-> "none", detail |-> <<>>]

EngineError(kind, detail) == [kind |-> kind, detail |-> detail]

-----------------------------------------------------------------------------
(* Node capabilities: the functions a registry maps names to.  A capability *)
(* is described by what it does with the dict it is called with.            *)

Cap(kind, key, val) == [kind |-> kind, key |-> key, val |-> val]

\* def f(state): return None
Noop == Cap("noop", "", VEmpty)

\* def f(state): state[key] = val; return state      (the style of app/workflows)
SetAndReturn(key, val) == Cap("set", key, val)

\* def f(state): state[key] = val                     (returns None)
MutateInPlace(key, val) == Cap("mutate", key, val)

\* def f(state): return {key: val}                    (a new dict)
ReturnNew(key, val) == Cap("replace", key, val)

\* def f(state): state[key] = val; raise Exception("boom")
SetThenRaise(key, val) == Cap("set_raise", key, val)

\* def f(state): raise Exception("boom")
JustRaise == Cap("raise", "", VEmpty)

\* def f(state): state[key].append(val)              (returns None)
AppendInPlace(key, val) == Cap("append", key, val)

\* def f(state):                                      (a check that passes on
\*     state["n"] = state.get("n", 0) + 1               its k-th invocation)
\*     state[key] = state["n"] >= k
\*     return state
PassOnKth(key, k) == Cap("count", key, IntVal(k))

\* the state PassOnKth leaves
Counted(cap, st) ==
    LET n == IF "n" \in DOMAIN st THEN IntOf(st["n"]) + 1 ELSE 1
    IN  Put(Put(st, "n", IntVal(n)), cap.key,
            IF n >= IntOf(cap.val) THEN VTrue ELSE VFalse)

\* state[key] is a list
HoldsList(st, key) == key \in DOMAIN st /\ st[key].t = "list"

\* node_fn(run.state): arg is the dict passed in as the call left it, result the
\* returned dict when isdict, raised whether the call raised, heap the list
\* objects as the call left them
Invoke(cap, st, hp) ==
    CASE cap.kind = "noop" ->
            [raised |-> FALSE, isdict |-> FALSE, arg |-> st, result |-> Empty,
             heap |-> hp]
      [] cap.kind = "set" ->
            [raised |-> FALSE, isdict |-> TRUE, arg |-> Put(st, cap.key, cap.val),
             result |-> Put(st, cap.key, cap.val), heap |-> hp]
      [] cap.kind = "mutate" ->
            [raised |-> FALSE, isdict |-> FALSE, arg |-> Put(st, cap.key, cap.val),
             result |-> Empty, heap |-> hp]
      [] cap.kind = "replace" ->
            [raised |-> FALSE, isdict |-> TRUE, arg |-> st,
             result |-> Put(Empty, cap.key, cap.val), heap |-> hp]
      [] cap.kind = "set_raise" ->
            [raised |-> TRUE, isdict |-> FALSE, arg |-> Put(st, cap.key, cap.val),
             result |-> Empty, heap |-> hp]
      [] cap.kind = "count" /\ ("n" \in DOMAIN st => st["n"].t = "int") ->
            [raised |-> FALSE, isdict |-> TRUE, arg |-> Counted(cap, st),
             result |-> Counted(cap, st), heap |-> hp]
      [] cap.kind = "append" /\ HoldsList(st, cap.key) ->
            [raised |-> FALSE, isdict |-> FALSE, arg |-> st, result |-> Empty,
             heap |-> [hp EXCEPT ![st[cap.key].ref] = Append(@, cap.val)]]
      [] OTHER ->
            [raised |-> TRUE, isdict |-> FALSE, arg |-> st, result |-> Empty,
             heap |-> hp]

\* str(e) of the exception a capability raises
NodeFailure == EngineError("boom", <<>>)

-----------------------------------------------------------------------------
(* Graph management *)

\* payload.conditional_edges or {}
OrEmptyDict(opt) == IF opt = <<>> THEN Empty ELSE opt[1]

\* (mutation) only the first name not in the registry
MissingFirst(nodes, registry) ==
    LET absent == {i \in 1..Len(nodes) : nodes[i] \notin DOMAIN registry}
    IN  IF absent = {}
        THEN <<>>
        ELSE <<nodes[CHOOSE i \in absent : \A j \in absent : i <= j]>>

\* [n for n in payload.nodes if n not in self.node_registry]
RECURSIVE Missing(_, _)
Missing(nodes, registry) ==
    IF nodes = <<>> THEN <<>>
    ELSE IF Head(nodes) \notin DOMAIN registry
         THEN <<Head(nodes)>> \o Missing(Tail(nodes), registry)
         ELSE Missing(Tail(nodes), registry)

\* n in a list
InList(n, list) == \E i \in 1..Len(list) : list[i] = n

\* (mutation) the stored graph loses its conditional edges
GraphWithoutConditionalEdges(id, payload) ==
    [id                |-> id,
     name              |-> payload.name,
     entry_node        |-> payload.entry_node,
     nodes             |-> payload.nodes,
     edges             |-> payload.edges,
     conditional_edges |-> Empty]

\* Graph(name=..., entry_node=..., nodes=..., edges=..., conditional_edges=...)
Graph(id, payload) ==
    [id                |-> id,
     name              |-> payload.name,
     entry_node        |-> payload.entry_node,
     nodes             |-> payload.nodes,
     edges             |-> payload.edges,
     conditional_edges |-> OrEmptyDict(payload.conditional_edges)]

\* uuid4(): an identifier no stored object has (ids are numbered in the order
\* they are drawn; a call draws its id from the set ids it is given)
FreshId(store) == Cardinality(DOMAIN store) + 1

\* (mutation) the entry node is checked before the registry is consulted
CreateGraphErrorEntryFirst(payload, registry) ==
    IF ~InList(payload.entry_node, payload.nodes)
    THEN EngineError("entry_node is not listed in nodes", <<payload.entry_node>>)
    ELSE IF Missing(payload.nodes, registry) # <<>>
         THEN EngineError("Nodes not found in registry", Missing(payload.nodes, registry))
         ELSE NoError

\* what create_graph does with a payload: the error it raises, if any
CreateGraphError(payload, registry) ==
    IF Missing(payload.nodes, registry) # <<>>
    THEN EngineError("Nodes not found in registry", Missing(payload.nodes, registry))
    ELSE IF ~InList(payload.entry_node, payload.nodes)
         THEN EngineError("entry_node is not listed in nodes", <<payload.entry_node>>)
         ELSE NoError

create_graph(payload, ids) ==
    LET err == CreateGraphError(payload, node_registry)
        id  == FreshId(graphs)
    IN  IF err # NoError
        THEN /\ ret' = [op |-> "create_graph", raised |-> TRUE, error |-> err,
                        value |-> <<>>]
             /\ UNCHANGED <<node_registry, graphs, runs, frames, submitted, heap>>
        ELSE /\ id \in ids
             /\ graphs' = Put(graphs, id, Graph(id, payload))
             /\ submitted' = Put(submitted, id, payload)
             /\ ret' = [op |-> "create_graph", raised |-> FALSE, error |-> NoError,
                        value |-> <<id>>]
             /\ UNCHANGED <<node_registry, runs, frames, heap>>

get_graph(graph_id) ==
    /\ ret' = IF graph_id \in DOMAIN graphs
              THEN [op |-> "get_graph", raised |-> FALSE, error |-> NoError,
                    value |-> <<graphs[graph_id]>>]
              ELSE [op |-> "get_graph", raised |-> TRUE,
                    error |-> EngineError("Graph not found", <<ToString(graph_id)>>),
                    value |-> <<>>]
    /\ UNCHANGED <<node_registry, graphs, runs, frames, submitted, heap>>

-----------------------------------------------------------------------------
(* Run management / executor *)

\* Run(graph_id=graph.id, state=initial_state.copy(), status="running", execution_log=[])
Run(id, graph_id, initial_state) ==
    [id            |-> id,
     graph_id      |-> graph_id,
     status        |-> "running",
     state         |-> initial_state,
     execution_log |-> <<>>,
     error         |-> NoError]

\* GraphRunResponse(run_id=run.id, final_state=run.state, ...)
GraphRunResponse(run) ==
    [run_id        |-> run.id,
     final_state   |-> run.state,
     execution_log |-> run.execution_log,
     status        |-> run.status]

\* run.state.get(current_node, None) is None
NoDecision(state, node) == node \notin DOMAIN state

\* (mutation) a missing decision is looked up under "default" in every map
DecisionKeyNeverRaises(cond_map, state, node) ==
    IF ~NoDecision(state, node) /\ state[node].t = "bool"
    THEN [raised |-> FALSE, key |-> IF state[node] = VTrue THEN "true" ELSE "false"]
    ELSE IF NoDecision(state, node)
         THEN [raised |-> FALSE, key |-> "default"]
         ELSE [raised |-> FALSE, key |-> state[node].s]

\* the key the decision value is looked up under; raised when there is neither a
\* decision nor a "default" entry
DecisionKey(cond_map, state, node) ==
    IF ~NoDecision(state, node) /\ state[node].t = "bool"
    THEN [raised |-> FALSE, key |-> IF state[node] = VTrue THEN "true" ELSE "false"]
    ELSE IF NoDecision(state, node)
         THEN IF "default" \in DOMAIN cond_map
              THEN [raised |-> FALSE, key |-> "default"]
              ELSE [raised |-> TRUE, key |-> ""]
         ELSE [raised |-> FALSE, key |-> state[node].s]

\* next_node = cond_map.get(key), replaced by the "default" entry when it is None
CondTarget(cond_map, key) ==
    IF Get(cond_map, key) = Null /\ "default" \in DOMAIN cond_map
    THEN Get(cond_map, "default")
    ELSE Get(cond_map, key)

\* (mutation) the linear edges are not followed
NextNodeWithoutEdges(graph, current_node, state) ==
    IF current_node \in DOMAIN graph.conditional_edges
    THEN LET cond_map == graph.conditional_edges[current_node]
             dk       == DecisionKey(cond_map, state, current_node)
         IN  IF dk.raised
             THEN [raised |-> TRUE, next |-> Null]
             ELSE [raised |-> FALSE, next |-> CondTarget(cond_map, dk.key)]
    ELSE [raised |-> FALSE, next |-> Null]

\* (mutation) a conditional node whose map yields no node follows its linear edge
NextNodeEdgesFallback(graph, current_node, state) ==
    IF current_node \in DOMAIN graph.conditional_edges
    THEN LET cond_map == graph.conditional_edges[current_node]
             dk       == DecisionKey(cond_map, state, current_node)
         IN  IF dk.raised
             THEN [raised |-> TRUE, next |-> Null]
             ELSE IF CondTarget(cond_map, dk.key) = Null
                  THEN [raised |-> FALSE, next |-> Get(graph.edges, current_node)]
                  ELSE [raised |-> FALSE, next |-> CondTarget(cond_map, dk.key)]
    ELSE [raised |-> FALSE, next |-> Get(graph.edges, current_node)]

\* "Determine next node": the node after current_node given the state the
\* capability left; raised when the conditional node set no decision
NextNode(graph, current_node, state) ==
    IF current_node \in DOMAIN graph.conditional_edges
    THEN LET cond_map == graph.conditional_edges[current_node]
             dk       == DecisionKey(cond_map, state, current_node)
         IN  IF dk.raised
             THEN [raised |-> TRUE, next |-> Null]
             ELSE [raised |-> FALSE, next |-> CondTarget(cond_map, dk.key)]
    ELSE [raised |-> FALSE, next |-> Get(graph.edges, current_node)]

\* (mutation) the limit is taken to be reached one pass early
LimitReached(iter_count, max_iterations) == iter_count >= max_iterations

\* (mutation) the limit is taken to be reached one pass late
LimitExceededLate(iter_count, max_iterations) == iter_count > max_iterations + 1

\* iter_count > max_iterations
LimitExceeded(iter_count, max_iterations) == iter_count > max_iterations

\* (mutation) a returned dict is merged into the dict that was passed in
StateAfterMerged(out) ==
    IF out.isdict
    THEN [k \in DOMAIN out.arg \cup DOMAIN out.result |->
             IF k \in DOMAIN out.result THEN out.result[k] ELSE out.arg[k]]
    ELSE out.arg

\* the state of the run after node_fn(run.state) returned
StateAfter(out) == IF out.isdict THEN out.result ELSE out.arg

\* (mutation) the node is appended to the log once its function has been found
LoopBodyLookupFirst(graph, registry, f, run, hp) ==
    LET iter_count == f.iter_count + 1
        node       == f.current_node
        log        == Append(run.execution_log, node)
        unchanged  == [iter_count |-> iter_count, current_node |-> node,
                       execution_log |-> run.execution_log, state |-> run.state,
                       visited |-> FALSE, invoked |-> FALSE, exc |-> NoError,
                       heap |-> hp]
    IN  IF LimitExceeded(iter_count, f.max_iterations)
        THEN [unchanged EXCEPT !.exc = EngineError("Max iterations exceeded",
                                                   <<ToString(f.max_iterations)>>)]
        ELSE IF node \notin DOMAIN registry
        THEN [unchanged EXCEPT !.visited = TRUE,
                               !.exc = EngineError("Node function not found in registry",
                                                   <<node>>)]
        ELSE LET out == Invoke(registry[node], run.state, hp)
             IN  IF out.raised
                 THEN [unchanged EXCEPT !.execution_log = log, !.state = out.arg,
                                        !.visited = TRUE, !.invoked = TRUE,
                                        !.exc = NodeFailure, !.heap = out.heap]
                 ELSE LET nn == NextNode(graph, node, StateAfter(out))
                      IN  IF nn.raised
                          THEN [unchanged EXCEPT !.execution_log = log,
                                                 !.state = StateAfter(out),
                                                 !.visited = TRUE, !.invoked = TRUE,
                                                 !.heap = out.heap,
                                                 !.exc = EngineError("Conditional node did not set state",
                                                                     <<node>>)]
                          ELSE [unchanged EXCEPT !.execution_log = log,
                                                 !.state = StateAfter(out),
                                                 !.visited = TRUE, !.invoked = TRUE,
                                                 !.heap = out.heap,
                                                 !.current_node = nn.next]

\* One pass through the body of the while loop for the frame f of the run:
\* the new locals and Run fields, and the exception that left the loop (exc)
LoopBody(graph, registry, f, run, hp) ==
    LET iter_count == f.iter_count + 1
        node       == f.current_node
        log        == Append(run.execution_log, node)
        unchanged  == [iter_count |-> iter_count, current_node |-> node,
                       execution_log |-> run.execution_log, state |-> run.state,
                       visited |-> FALSE, invoked |-> FALSE, exc |-> NoError,
                       heap |-> hp]
    IN  IF LimitExceeded(iter_count, f.max_iterations)
        THEN [unchanged EXCEPT !.exc = EngineError("Max iterations exceeded",
                                                   <<ToString(f.max_iterations)>>)]
        ELSE IF node \notin DOMAIN registry
        THEN [unchanged EXCEPT !.execution_log = log, !.visited = TRUE,
                               !.exc = EngineError("Node function not found in registry",
                                                   <<node>>)]
        ELSE LET out == Invoke(registry[node], run.state, hp)
             IN  IF out.raised
                 THEN [unchanged EXCEPT !.execution_log = log, !.state = out.arg,
                                        !.visited = TRUE, !.invoked = TRUE,
                                        !.exc = NodeFailure, !.heap = out.heap]
                 ELSE LET nn == NextNode(graph, node, StateAfter(out))
                      IN  IF nn.raised
                          THEN [unchanged EXCEPT !.execution_log = log,
                                                 !.state = StateAfter(out),
                                                 !.visited = TRUE, !.invoked = TRUE,
                                                 !.heap = out.heap,
                                                 !.exc = EngineError("Conditional node did not set state",
                                                                     <<node>>)]
                          ELSE [unchanged EXCEPT !.execution_log = log,
                                                 !.state = StateAfter(out),
                                                 !.visited = TRUE, !.invoked = TRUE,
                                                 !.heap = out.heap,
                                                 !.current_node = nn.next]

\* (mutation) the run starts at the first declared node
FrameFromFirstNode(graph, initial_state, max_iterations) ==
    [pc             |-> "loop",
     initial_state  |-> initial_state,
     heap_at_call   |-> heap,
     current_node   |-> graph.nodes[1],
     iter_count     |-> 0,
     max_iterations |-> max_iterations,
     exc            |-> NoError,
     history        |-> <<>>]

\* the locals of a run_graph call on entry to the try block; history is a
\* record of the call for the properties below, one entry per pass of the loop
\* that got past the iteration check: the node, whether its capability was
\* called and raised, the dict it was passed as the call left it, and run.state
\* once the call was dealt with; heap_at_call is the list objects as they were
\* when the call was made
Frame(graph, initial_state, max_iterations) ==
    [pc             |-> "loop",
     initial_state  |-> initial_state,
     heap_at_call   |-> heap,
     current_node   |-> graph.entry_node,
     iter_count     |-> 0,
     max_iterations |-> max_iterations,
     exc            |-> NoError,
     history        |-> <<>>]

\* (mutation) the Run is created and stored before the graph is looked up
run_graph_storing_first(graph_id, initial_state, max_iterations, ids) ==
    LET id == FreshId(runs)
    IN  IF graph_id \notin DOMAIN graphs
        THEN /\ id \in ids
             /\ runs' = Put(runs, id, Run(id, graph_id, initial_state))
             /\ ret' = [op |-> "run_graph", raised |-> TRUE,
                        error |-> EngineError("Graph not found", <<ToString(graph_id)>>),
                        value |-> <<>>]
             /\ UNCHANGED <<node_registry, graphs, frames, submitted, heap>>
        ELSE /\ id \in ids
             /\ runs' = Put(runs, id, Run(id, graph_id, initial_state))
             /\ frames' = Put(frames, id,
                              Frame(graphs[graph_id], initial_state, max_iterations))
             /\ UNCHANGED <<node_registry, graphs, ret, submitted, heap>>

\* run_graph up to the try block: get_graph, then create the Run and store it
run_graph(graph_id, initial_state, max_iterations, ids) ==
    IF graph_id \notin DOMAIN graphs
    THEN /\ ret' = [op |-> "run_graph", raised |-> TRUE,
                    error |-> EngineError("Graph not found", <<ToString(graph_id)>>),
                    value |-> <<>>]
         /\ UNCHANGED <<node_registry, graphs, runs, frames, submitted, heap>>
    ELSE LET id == FreshId(runs)
         IN  /\ id \in ids
             /\ runs' = Put(runs, id, Run(id, graph_id, initial_state))
             /\ frames' = Put(frames, id,
                              Frame(graphs[graph_id], initial_state, max_iterations))
             /\ UNCHANGED <<node_registry, graphs, ret, submitted, heap>>

\* one iteration of "while current_node is not None"
Visit(r) ==
    /\ r \in DOMAIN frames
    /\ frames[r].pc = "loop"
    /\ frames[r].current_node # Null
    /\ LET f    == frames[r]
           node == f.current_node
           body == LoopBody(graphs[runs[r].graph_id], node_registry, f, runs[r], heap)
           arg  == IF node \in DOMAIN node_registry
                   THEN Invoke(node_registry[node], runs[r].state, heap).arg
                   ELSE runs[r].state
       IN  /\ runs' = [runs EXCEPT ![r].execution_log = body.execution_log,
                                   ![r].state = body.state]
           /\ frames' = [frames EXCEPT
                  ![r].pc = IF body.exc # NoError THEN "except" ELSE "loop",
                  ![r].current_node = body.current_node,
                  ![r].iter_count = body.iter_count,
                  ![r].exc = body.exc,
                  ![r].history =
                      IF body.visited
                      THEN Append(@, [node |-> node, invoked |-> body.invoked,
                                      raised |-> body.exc = NodeFailure,
                                      arg |-> arg, state |-> body.state])
                      ELSE @]
           /\ heap' = body.heap
    /\ UNCHANGED <<node_registry, graphs, ret, submitted>>

\* the loop ended: run.status = "completed" and the response is returned
Complete(r) ==
    /\ r \in DOMAIN frames
    /\ frames[r].pc = "loop"
    /\ frames[r].current_node = Null
    /\ runs' = [runs EXCEPT ![r].status = "completed"]
    /\ frames' = [frames EXCEPT ![r].pc = "done"]
    /\ ret' = [op |-> "run_graph", raised |-> FALSE, error |-> NoError,
               value |-> <<GraphRunResponse(runs'[r])>>]
    /\ UNCHANGED <<node_registry, graphs, submitted, heap>>

\* (mutation) the exception is caught but run.status is left as it was
MarkFailedStatusLeft(r) ==
    /\ r \in DOMAIN frames
    /\ frames[r].pc = "except"
    /\ frames' = [frames EXCEPT ![r].pc = "except_error"]
    /\ UNCHANGED <<node_registry, graphs, runs, ret, submitted, heap>>

\* except Exception as e: run.status = "failed"
MarkFailed(r) ==
    /\ r \in DOMAIN frames
    /\ frames[r].pc = "except"
    /\ runs' = [runs EXCEPT ![r].status = "failed"]
    /\ frames' = [frames EXCEPT ![r].pc = "except_error"]
    /\ UNCHANGED <<node_registry, graphs, ret, submitted, heap>>

\* (mutation) the response is returned without run.error being set
SetErrorSkipped(r) ==
    /\ r \in DOMAIN frames
    /\ frames[r].pc = "except_error"
    /\ frames' = [frames EXCEPT ![r].pc = "done"]
    /\ ret' = [op |-> "run_graph", raised |-> FALSE, error |-> NoError,
               value |-> <<GraphRunResponse(runs[r])>>]
    /\ UNCHANGED <<node_registry, graphs, runs, submitted, heap>>

\* run.error = str(e) and the response is returned
SetError(r) ==
    /\ r \in DOMAIN frames
    /\ frames[r].pc = "except_error"
    /\ runs' = [runs EXCEPT ![r].error = frames[r].exc]
    /\ frames' = [frames EXCEPT ![r].pc = "done"]
    /\ ret' = [op |-> "run_graph", raised |-> FALSE, error |-> NoError,
               value |-> <<GraphRunResponse(runs'[r])>>]
    /\ UNCHANGED <<node_registry, graphs, submitted, heap>>

\* the Run returned is the stored object, not a copy: the value is its id, and
\* what the caller reads through it is runs[id] as it is at the time of reading
get_run(run_id) ==
    /\ ret' = IF run_id \in DOMAIN runs
              THEN [op |-> "get_run", raised |-> FALSE, error |-> NoError,
                    value |-> <<run_id>>]
              ELSE [op |-> "get_run", raised |-> TRUE,
                    error |-> EngineError("Run not found", <<ToString(run_id)>>),
                    value |-> <<>>]
    /\ UNCHANGED <<node_registry, graphs, runs, frames, submitted, heap>>

-----------------------------------------------------------------------------
(* Node registry *)

\* (mutation) a name that is already registered is given the new capability
register_overwriting(name, func) ==
    /\ node_registry' = Put(node_registry, name, func)
    /\ ret' = [op |-> "register", raised |-> name \in DOMAIN node_registry,
               error |-> IF name \in DOMAIN node_registry
                         THEN EngineError("Node is already registered", <<name>>)
                         ELSE NoError,
               value |-> <<>>]
    /\ UNCHANGED <<graphs, runs, frames, submitted, heap>>

\* @register(name) applied to func
register(name, func) ==
    IF name \in DOMAIN node_registry
    THEN /\ ret' = [op |-> "register", raised |-> TRUE,
                    error |-> EngineError("Node is already registered", <<name>>),
                    value |-> <<>>]
         /\ UNCHANGED <<node_registry, graphs, runs, frames, submitted, heap>>
    ELSE /\ node_registry' = Put(node_registry, name, func)
         /\ ret' = [op |-> "register", raised |-> FALSE, error |-> NoError,
                    value |-> <<>>]
         /\ UNCHANGED <<graphs, runs, frames, submitted, heap>>

\* get_node(name): the registered function, or KeyError
get_node(name) ==
    /\ ret' = IF name \in DOMAIN node_registry
              THEN [op |-> "get_node", raised |-> FALSE, error |-> NoError,
                    value |-> <<node_registry[name]>>]
              ELSE [op |-> "get_node", raised |-> TRUE,
                    error |-> EngineError("Node is not registered", <<name>>),
                    value |-> <<>>]
    /\ UNCHANGED <<node_registry, graphs, runs, frames, submitted, heap>>

-----------------------------------------------------------------------------
(* The inputs the operations are called with *)

MaxIterations == 2

NodeNames == {"a", "b"}

\* the capabilities startup code registers, by name
Registrations ==
    {<<"a", c>> : c \in {Noop, SetAndReturn("a", VTrue), SetAndReturn("a", VOne),
                         ReturnNew("b", VTrue), JustRaise}}
    \cup {<<"b", c>> : c \in {Noop, MutateInPlace("a", VFalse),
                              SetThenRaise("b", VTrue)}}

\* linear graphs over a and b
LinearPayloads ==
    [name : {"wf"}, entry_node : NodeNames, nodes : {<<"a">>, <<"a", "b">>},
     edges : {ea @@ eb : ea \in PartialFns({"a"}, {"a", "b", Null}),
                         eb \in PartialFns({"b"}, {"a"})},
     conditional_edges : {<<>>}]

CondMaps ==
    PartialFns({"true", "false", "default"}, {"a", Null})
    \cup {("1" :> "a"), ("1" :> "a") @@ ("true" :> Null),
          ("True" :> "a") @@ ("true" :> Null), ("true" :> "b")}

\* graphs whose node a is conditional
ConditionalPayloads ==
    [name : {"wf"}, entry_node : NodeNames, nodes : {<<"a", "b">>},
     edges : {Empty, ("a" :> "b") @@ ("b" :> "a")},
     conditional_edges : {<<("a" :> m)>> : m \in CondMaps}]

Payloads == LinearPayloads \cup ConditionalPayloads

InitialStates == {Empty, ("a" :> VFalse)}

-----------------------------------------------------------------------------
(* The engine after construction, and the calls made on it.  Spec is an     *)
(* engine that stores one graph and runs it once, with every payload,       *)
(* registry, initial state and iteration limit of the sets above.           *)

Init ==
    /\ node_registry = Empty
    /\ graphs = Empty
    /\ runs = Empty
    /\ frames = Empty
    /\ ret = [op |-> "init", raised |-> FALSE, error |-> NoError, value |-> <<>>]
    /\ submitted = Empty
    /\ heap = Empty

Register == \E reg \in Registrations : register(reg[1], reg[2])

CreateGraph == \E payload \in Payloads : create_graph(payload, {1})

RunGraph ==
    \E graph_id \in {0, 1}, initial_state \in InitialStates,
       max_iterations \in 0..MaxIterations :
        run_graph(graph_id, initial_state, max_iterations, {1})

Step == \E r \in DOMAIN frames : Visit(r) \/ Complete(r) \/ MarkFailed(r) \/ SetError(r)

Next == Register \/ CreateGraph \/ RunGraph \/ Step

Spec == Init /\ [][Next]_vars

\* FairSpec is the same engine over fewer registrations and conditional maps.
\* A run_graph call is a sequential loop of a thread that keeps being scheduled,
\* and node capabilities return or raise: a step of a run that can be taken is
\* taken.
FairRegistrations ==
    {<<"a", c>> : c \in {Noop, SetAndReturn("a", VTrue), JustRaise}}
    \cup {<<"b", c>> : c \in {Noop, MutateInPlace("a", VFalse)}}

FairPayloads ==
    LinearPayloads
    \cup [name : {"wf"}, entry_node : NodeNames, nodes : {<<"a", "b">>},
          edges : {Empty, ("a" :> "b") @@ ("b" :> "a")},
          conditional_edges :
              {<<("a" :> m)>> : m \in PartialFns({"true", "default"}, {"a", Null})}]

FairRegister == \E reg \in FairRegistrations : register(reg[1], reg[2])

FairCreateGraph == \E payload \in FairPayloads : create_graph(payload, {1})

FairNext == FairRegister \/ FairCreateGraph \/ RunGraph \/ Step

FairSpec ==
    /\ Init
    /\ [][FairNext]_vars
    /\ \A r \in {1} : WF_vars(Visit(r) \/ Complete(r) \/ MarkFailed(r) \/ SetError(r))

-----------------------------------------------------------------------------
(* StoreSpec is an engine that stores up to MaxGraphs graphs and MaxRuns    *)
(* runs, over few payloads, used by a single caller: run_graph is           *)
(* synchronous, so the caller makes its next call when the run has ended.   *)

MaxGraphs == 2
MaxRuns == 2

StoreRegistrations == {<<"a", Noop>>, <<"a", JustRaise>>}

StorePayloads ==
    [name : {"wf"}, entry_node : NodeNames, nodes : {<<"a">>, <<"a", "b", "c">>},
     edges : {Empty},
     conditional_edges : {<<>>, <<Empty>>, <<("a" :> ("true" :> "a"))>>}]

StoreRegister == \E reg \in StoreRegistrations : register(reg[1], reg[2])

StoreCreateGraph == \E payload \in StorePayloads : create_graph(payload, 1..MaxGraphs)

StoreGetGraph == \E graph_id \in 0..MaxGraphs : get_graph(graph_id)

StoreRunGraph ==
    \E graph_id \in 0..MaxGraphs :
        run_graph(graph_id, Empty, MaxIterations, 1..MaxRuns)

StoreGetRun == \E run_id \in 0..MaxRuns : get_run(run_id)

StoreGetNode == \E name \in NodeNames : get_node(name)

\* no run_graph call is in progress
Idle == \A r \in DOMAIN frames : frames[r].pc = "done"

StoreNext ==
    \/ Idle /\ StoreRegister
    \/ Idle /\ StoreCreateGraph
    \/ Idle /\ StoreGetGraph
    \/ Idle /\ StoreRunGraph
    \/ Idle /\ StoreGetRun
    \/ Idle /\ StoreGetNode
    \/ Step

StoreSpec == Init /\ [][StoreNext]_vars

-----------------------------------------------------------------------------
(* ConcSpec is an engine whose registry is populated at startup, before any *)
(* run, and on which two callers then run the stored graph at the same      *)
(* time: the steps of their run_graph calls interleave.  The callers build  *)
(* their initial states from values and from a list object they created.    *)

ConcRegistrations ==
    {<<"a", c>> : c \in {AppendInPlace("items", VOne), SetAndReturn("a", VTrue)}}

ConcPayloads ==
    [name : {"wf"}, entry_node : {"a"}, nodes : {<<"a">>},
     edges : {Empty, ("a" :> "a")}, conditional_edges : {<<>>}]

ConcInitialStates == {Empty, ("items" :> ListRef(1))}

\* the list objects a dict refers to
Refs(st) == {st[k].ref : k \in {x \in DOMAIN st : st[x].t = "list"}}

\* a caller evaluates []
NewList(refs) ==
    /\ FreshId(heap) \in refs
    /\ heap' = Put(heap, FreshId(heap), <<>>)
    /\ UNCHANGED <<node_registry, graphs, runs, frames, ret, submitted>>

ConcNewList == NewList({1})

ConcRegister ==
    /\ runs = Empty
    /\ \E reg \in ConcRegistrations : register(reg[1], reg[2])

ConcCreateGraph == \E payload \in ConcPayloads : create_graph(payload, {1})

ConcRunGraph ==
    \E initial_state \in ConcInitialStates, max_iterations \in 1..MaxIterations :
        /\ Refs(initial_state) \subseteq DOMAIN heap
        /\ run_graph(1, initial_state, max_iterations, {1, 2})

ConcNext == ConcNewList \/ ConcRegister \/ ConcCreateGraph \/ ConcRunGraph \/ Step

ConcSpec == Init /\ [][ConcNext]_vars

-----------------------------------------------------------------------------
(* CheckSpec is an engine that runs the graph of the single conditional     *)
(* node "check", which loops back to itself until its decision is True.     *)

CheckRegistrations ==
    {<<"check", PassOnKth("check", k)>> : k \in 1..(MaxIterations + 1)}
    \cup {<<"check", SetAndReturn("check", VFalse)>>}

CheckPayloads ==
    [name : {"wf"}, entry_node : {"check"}, nodes : {<<"check">>},
     edges : {Empty, ("check" :> "check")},
     conditional_edges : {<<("check" :> (("true" :> Null) @@ ("false" :> "check")))>>}]

CheckInitialStates == {Empty, ("check" :> VTrue)}

CheckRegister == \E reg \in CheckRegistrations : register(reg[1], reg[2])

CheckCreateGraph == \E payload \in CheckPayloads : create_graph(payload, {1})

CheckRunGraph ==
    \E initial_state \in CheckInitialStates, max_iterations \in 0..MaxIterations :
        run_graph(1, initial_state, max_iterations, {1})

CheckNext == CheckRegister \/ CheckCreateGraph \/ CheckRunGraph \/ Step

CheckSpec == Init /\ [][CheckNext]_vars

-----------------------------------------------------------------------------
(* Properties *)

Last(seq) == seq[Len(seq)]

Range(seq) == {seq[i] : i \in 1..Len(seq)}

\* the nodes a run visited, in order
NodesOf(history) == [i \in 1..Len(history) |-> history[i].node]

\* the node the run went on to after its i-th visit (Null: it stopped there)
NextVisited(r, i) ==
    IF i < Len(frames[r].history)
    THEN frames[r].history[i + 1].node
    ELSE frames[r].current_node

\* the dicts a run's state can be
AllStates == PartialFns(NodeNames, {VTrue, VFalse, VOne})

NeverRaises(cap) == \A st \in AllStates : ~Invoke(cap, st, Empty).raised

IterationLimitError(max_iterations) ==
    [kind |-> "Max iterations exceeded", detail |-> <<ToString(max_iterations)>>]

\* the response of the run_graph call that ran r, when ret holds it
ReturnedFor(r) == ret.op = "run_graph" /\ ~ret.raised /\ ret.value[1].run_id = r

\* C1: when a node capability raises during the k-th visit of a run, run_graph
\* does not raise but returns a summary with status "failed"; the stored Run has
\* the failure's description as its error, its execution_log is the k nodes
\* visited, the raising node last, and its state is the dict as the capability
\* left it when it raised.
C1_NodeFailureContained ==
    \A r \in DOMAIN frames :
        \A k \in 1..Len(frames[r].history) :
            frames[r].history[k].raised =>
                /\ k = Len(frames[r].history)
                /\ frames[r].pc # "loop"
                /\ runs[r].execution_log = NodesOf(frames[r].history)
                /\ Len(runs[r].execution_log) = k
                /\ runs[r].state = frames[r].history[k].arg
                /\ runs[r].status # "completed"
                /\ frames[r].pc = "done" =>
                      /\ runs[r].status = "failed"
                      /\ runs[r].error = [kind |-> "boom", detail |-> <<>>]
                      /\ (ret.op = "run_graph" /\ ret.raised) =>
                            ret.error.kind = "Graph not found"
                      /\ ReturnedFor(r) =>
                            ret.value[1] = [run_id |-> r, status |-> "failed",
                                            final_state |-> frames[r].history[k].arg,
                                            execution_log |-> NodesOf(frames[r].history)]

\* a run whose second visit raised after changing the state, and has returned
C1_Witness ==
    \E r \in DOMAIN frames :
        /\ frames[r].pc = "done"
        /\ Len(frames[r].history) = 2
        /\ frames[r].history[2].raised
        /\ frames[r].history[2].arg # frames[r].history[1].state
        /\ ReturnedFor(r)

\* whatever the state, the capability of the conditional node returns and the
\* decision it leaves leads back to the node
AlwaysRoutesBack(graph, node, registry) ==
    /\ node \in DOMAIN graph.conditional_edges
    /\ node \in DOMAIN registry
    /\ \A st \in AllStates :
          LET out == Invoke(registry[node], st, Empty)
          IN  /\ ~out.raised
              /\ NextNode(graph, node, StateAfter(out)) = [raised |-> FALSE, next |-> node]

\* C2: a run that starts at a conditional node whose decision always routes
\* back to the node itself never completes: it ends "failed" with the
\* iteration-limit error, and then the node was invoked exactly max_iterations
\* times and execution_log has exactly max_iterations entries.
C2_SelfLoopHitsLimit ==
    \A r \in DOMAIN frames :
        LET graph == graphs[runs[r].graph_id]
            node  == graph.entry_node
        IN  AlwaysRoutesBack(graph, node, node_registry) =>
                /\ runs[r].status # "completed"
                /\ Len(runs[r].execution_log) <= frames[r].max_iterations
                /\ frames[r].pc = "done" =>
                      /\ runs[r].status = "failed"
                      /\ runs[r].error = IterationLimitError(frames[r].max_iterations)
                      /\ Len(runs[r].execution_log) = frames[r].max_iterations
                      /\ Len(frames[r].history) = frames[r].max_iterations
                      /\ \A i \in 1..Len(frames[r].history) :
                            /\ frames[r].history[i].invoked
                            /\ runs[r].execution_log[i] = node

\* a self-looping run that ended at the largest limit
C2_Witness ==
    \E r \in DOMAIN frames :
        /\ AlwaysRoutesBack(graphs[runs[r].graph_id], graphs[runs[r].graph_id].entry_node,
                            node_registry)
        /\ frames[r].pc = "done"
        /\ frames[r].max_iterations = MaxIterations
        /\ Len(runs[r].execution_log) = MaxIterations

\* C3: a started run, of any stored graph, initial state and limit
\* max_iterations >= 0, eventually has status "completed" or "failed"; it never
\* invokes more than max_iterations nodes and its execution_log never has more
\* than max_iterations entries.
C3_RunsTerminateWithinLimit ==
    /\ [](\A r \in DOMAIN frames :
            /\ Len(runs[r].execution_log) <= frames[r].max_iterations
            /\ Len(frames[r].history) <= frames[r].max_iterations)
    /\ \A r \in {1} :
          (r \in DOMAIN runs) ~> (r \in DOMAIN runs /\ runs[r].status \in {"completed", "failed"})

\* a run of a cyclic linear graph that was stopped by the limit
C3_Witness ==
    \E r \in DOMAIN frames :
        LET graph == graphs[runs[r].graph_id]
        IN  /\ graph.conditional_edges = Empty
            /\ runs[r].status = "failed"
            /\ frames[r].exc = IterationLimitError(frames[r].max_iterations)
            /\ Len(runs[r].execution_log) = MaxIterations
            /\ Range(runs[r].execution_log) = {"a", "b"}

\* the nodes the linear edges lead through from node n, up to the first node
\* with no successor or with a successor already on the way
RECURSIVE Chain(_, _, _)
Chain(edges, n, seen) ==
    IF Get(edges, n) = Null \/ Get(edges, n) \in seen \cup {n}
    THEN <<n>>
    ELSE <<n>> \o Chain(edges, Get(edges, n), seen \cup {n})

\* C4: when the linear edges lead from the entry node along a chain of distinct
\* nodes, none of them conditional, to a node with no outgoing edge, the chain is
\* no longer than max_iterations, and every node of it is registered when it is
\* visited and does not raise, the run ends "completed" with the chain as its
\* execution_log.
C4_LinearChainCompletes ==
    \A r \in DOMAIN frames :
        LET graph == graphs[runs[r].graph_id]
            chain == Chain(graph.edges, graph.entry_node, {})
        IN  (/\ Get(graph.edges, Last(chain)) = Null
             /\ \A i \in 1..Len(chain) : chain[i] \notin DOMAIN graph.conditional_edges
             /\ Len(chain) <= frames[r].max_iterations
             /\ \A i \in 1..Len(frames[r].history) :
                   frames[r].history[i].invoked /\ ~frames[r].history[i].raised
             /\ frames[r].pc = "done")
            => /\ runs[r].status = "completed"
               /\ runs[r].execution_log = chain

\* a completed run of the chain a, b where b has no entry in edges
C4_Witness ==
    \E r \in DOMAIN frames :
        /\ frames[r].pc = "done"
        /\ runs[r].status = "completed"
        /\ graphs[runs[r].graph_id].conditional_edges = Empty
        /\ graphs[runs[r].graph_id].edges = ("a" :> "b")
        /\ runs[r].execution_log = <<"a", "b">>

\* the i-th visit of r was of a conditional node whose capability returned and
\* left no value under the node's name, its conditional map having no "default"
Undecided(r, i) ==
    LET h     == frames[r].history[i]
        graph == graphs[runs[r].graph_id]
    IN  /\ h.invoked
        /\ ~h.raised
        /\ h.node \in DOMAIN graph.conditional_edges
        /\ h.node \notin DOMAIN h.state
        /\ "default" \notin DOMAIN graph.conditional_edges[h.node]

\* C5: when a visited conditional node leaves no value under its name and its
\* map has no "default" entry, no later node is visited, the run ends "failed"
\* with the missing-decision error naming the node, and execution_log is the
\* nodes visited up to and including it.
C5_MissingDecisionFails ==
    \A r \in DOMAIN frames :
        \A i \in 1..Len(frames[r].history) :
            Undecided(r, i) =>
                /\ i = Len(frames[r].history)
                /\ frames[r].pc # "loop"
                /\ runs[r].status # "completed"
                /\ runs[r].execution_log = NodesOf(frames[r].history)
                /\ frames[r].pc = "done" =>
                      /\ runs[r].status = "failed"
                      /\ runs[r].error = [kind |-> "Conditional node did not set state",
                                          detail |-> <<frames[r].history[i].node>>]

\* a run that failed at its second visit for want of a decision
C5_Witness ==
    \E r \in DOMAIN frames :
        /\ frames[r].pc = "done"
        /\ Len(frames[r].history) = 2
        /\ Undecided(r, 2)

\* the i-th visit of r was of a conditional node whose capability returned and
\* left a value under the node's name
Decided(r, i) ==
    LET h == frames[r].history[i]
    IN  /\ h.invoked
        /\ ~h.raised
        /\ h.node \in DOMAIN graphs[runs[r].graph_id].conditional_edges
        /\ h.node \in DOMAIN h.state

\* C6: after a conditional node decided True (False), the next node is the
\* target its map has for "true" ("false"), whatever other keys the map has; a
\* decision that is not a boolean is looked up by its string form.
C6_BooleanDecisionTarget ==
    \A r \in DOMAIN frames :
        \A i \in 1..Len(frames[r].history) :
            Decided(r, i) =>
                LET node     == frames[r].history[i].node
                    value    == frames[r].history[i].state[node]
                    cond_map == graphs[runs[r].graph_id].conditional_edges[node]
                IN  /\ (value = VTrue /\ "true" \in DOMAIN cond_map)
                          => NextVisited(r, i) = cond_map["true"]
                    /\ (value = VFalse /\ "false" \in DOMAIN cond_map)
                          => NextVisited(r, i) = cond_map["false"]
                    /\ (value.t # "bool" /\ value.s \in DOMAIN cond_map)
                          => NextVisited(r, i) = cond_map[value.s]

\* the key the decision of the i-th visit resolves to
ResolvedKey(r, i) ==
    LET value == frames[r].history[i].state[frames[r].history[i].node]
    IN  IF value.t = "bool"
        THEN IF value = VTrue THEN "true" ELSE "false"
        ELSE value.s

\* C7: when the key a decision resolves to is in the conditional map and mapped
\* to null, the run stops after that node and ends "completed", also when the
\* map has a "default" entry.
C7_ExplicitNullStops ==
    \A r \in DOMAIN frames :
        \A i \in 1..Len(frames[r].history) :
            LET cond_map ==
                    graphs[runs[r].graph_id].conditional_edges[frames[r].history[i].node]
            IN  (/\ Decided(r, i)
                 /\ ResolvedKey(r, i) \in DOMAIN cond_map
                 /\ cond_map[ResolvedKey(r, i)] = Null)
                => /\ i = Len(frames[r].history)
                   /\ frames[r].current_node = Null
                   /\ runs[r].status # "failed"
                   /\ frames[r].pc = "done" => runs[r].status = "completed"

\* the payload names a node that is not registered, or an entry node that is
\* not among its nodes
Rejected(payload) ==
    \/ \E n \in Range(payload.nodes) : n \notin DOMAIN node_registry
    \/ payload.entry_node \notin Range(payload.nodes)

\* C8: a create_graph call that rejects its payload leaves the graph store as it
\* was, and when a declared node is not registered the failure lists every
\* declared name that is not in the registry.
C8_RejectionStoresNothing ==
    [][\A payload \in StorePayloads :
          (create_graph(payload, 1..MaxGraphs) /\ Rejected(payload)) =>
              /\ graphs' = graphs
              /\ ret'.op = "create_graph"
              /\ ret'.raised
              /\ ret'.value = <<>>
              /\ (\E n \in Range(payload.nodes) : n \notin DOMAIN node_registry) =>
                    ret'.error =
                        [kind   |-> "Nodes not found in registry",
                         detail |-> SelectSeq(payload.nodes,
                                              LAMBDA n : n \notin DOMAIN node_registry)]]_vars

\* a payload was rejected for two unregistered nodes while a graph was stored
C8_Witness ==
    /\ ret.op = "create_graph"
    /\ ret.raised
    /\ ret.error.kind = "Nodes not found in registry"
    /\ Len(ret.error.detail) = 2
    /\ graphs # Empty

\* C9: the definition get_graph returns for an id create_graph returned has the
\* entry node, nodes, edges and conditional edges of the payload it was created
\* from, whatever was created or run since; conditional edges left out of the
\* payload are returned as the empty map.
C9_GraphRoundTrip ==
    (ret.op = "get_graph" /\ ~ret.raised) =>
        LET graph   == ret.value[1]
            payload == submitted[graph.id]
        IN  /\ graph.entry_node = payload.entry_node
            /\ graph.nodes = payload.nodes
            /\ graph.edges = payload.edges
            /\ graph.conditional_edges =
                   IF payload.conditional_edges = <<>>
                   THEN Empty
                   ELSE payload.conditional_edges[1]

\* the first graph, with conditional edges, read back after a second graph was
\* created and a run of the first one ended
C9_Witness ==
    /\ ret.op = "get_graph"
    /\ ~ret.raised
    /\ ret.value[1].id = 1
    /\ ret.value[1].conditional_edges # Empty
    /\ Cardinality(DOMAIN graphs) = 2
    /\ \E r \in DOMAIN frames : runs[r].graph_id = 1 /\ frames[r].pc = "done"

\* C10: run_graph with an id that is not in the graph store raises the
\* graph-not-found error, creates no Run and invokes no node; get_run with an
\* id that is not in the run store raises the run-not-found error and changes
\* nothing.
C10_UnknownIdsChangeNothing ==
    [][/\ \A graph_id \in 0..MaxGraphs :
             (run_graph(graph_id, Empty, MaxIterations, 1..MaxRuns)
                 /\ graph_id \notin DOMAIN graphs) =>
                 /\ runs' = runs
                 /\ frames' = frames
                 /\ graphs' = graphs
                 /\ ret'.op = "run_graph"
                 /\ ret'.raised
                 /\ ret'.error = [kind |-> "Graph not found",
                                  detail |-> <<ToString(graph_id)>>]
       /\ \A run_id \in 0..MaxRuns :
             (get_run(run_id) /\ run_id \notin DOMAIN runs) =>
                 /\ runs' = runs
                 /\ frames' = frames
                 /\ graphs' = graphs
                 /\ ret'.op = "get_run"
                 /\ ret'.raised
                 /\ ret'.error = [kind |-> "Run not found",
                                  detail |-> <<ToString(run_id)>>]]_vars

\* run_graph raised for an unknown id while a graph and a run were stored
C10_Witness ==
    /\ ret.op = "run_graph"
    /\ ret.raised
    /\ ret.error.kind = "Graph not found"
    /\ graphs # Empty
    /\ runs # Empty

\* a dict as a reader sees it: every list replaced by the items it holds
Deep(st, hp) ==
    [k \in DOMAIN st |->
        IF st[k].t = "list" THEN [t |-> "list", items |-> hp[st[k].ref]] ELSE st[k]]

\* the fields of a Run as a reader sees them
RunView(run, hp) ==
    [status        |-> run.status,
     state         |-> Deep(run.state, hp),
     execution_log |-> run.execution_log,
     error         |-> run.error]

\* what a run_graph call leaves in its Run when no other call is in progress:
\* the body of the loop repeated from the locals f until the loop is left
RECURSIVE RunAlone(_, _, _, _, _)
RunAlone(graph, registry, f, run, hp) ==
    IF f.current_node = Null
    THEN RunView([run EXCEPT !.status = "completed"], hp)
    ELSE LET body == LoopBody(graph, registry, f, run, hp)
             after == [run EXCEPT !.execution_log = body.execution_log,
                                  !.state = body.state]
         IN  IF body.exc # NoError
             THEN RunView([after EXCEPT !.status = "failed", !.error = body.exc],
                          body.heap)
             ELSE RunAlone(graph, registry,
                           [f EXCEPT !.current_node = body.current_node,
                                     !.iter_count = body.iter_count],
                           after, body.heap)

\* C11: a step of one run leaves every other Run record (status, state, log,
\* error, as a reader sees them) and every stored Graph unchanged, and a run
\* that has ended holds the status, log and state it would hold had it executed
\* alone from the same initial state.
C11_RunsAreIsolated ==
    /\ [][\A r \in DOMAIN frames :
             (Visit(r) \/ Complete(r) \/ MarkFailed(r) \/ SetError(r)) =>
                 /\ graphs' = graphs
                 /\ \A q \in DOMAIN runs \ {r} :
                       RunView(runs'[q], heap') = RunView(runs[q], heap)]_vars
    /\ [](\A r \in DOMAIN frames :
             frames[r].pc = "done" =>
                 RunView(runs[r], heap) =
                     RunAlone(graphs[runs[r].graph_id], node_registry,
                              Frame(graphs[runs[r].graph_id], frames[r].initial_state,
                                    frames[r].max_iterations),
                              Run(r, runs[r].graph_id, frames[r].initial_state),
                              frames[r].heap_at_call))

\* C12: a Run enters the store with status "running", its status only changes
\* from "running" to "completed" or to "failed", and once its status is
\* "completed" or "failed" no step changes its status, state, execution_log or
\* error as a reader of the stored record sees them.
C12_TerminalRunsAreImmutable ==
    [][/\ \A r \in DOMAIN runs' \ DOMAIN runs : runs'[r].status = "running"
       /\ \A r \in DOMAIN runs :
             /\ runs'[r].status # runs[r].status =>
                   /\ runs[r].status = "running"
                   /\ runs'[r].status \in {"completed", "failed"}
             /\ runs[r].status \in {"completed", "failed"} =>
                   RunView(runs'[r], heap') = RunView(runs[r], heap)]_vars

\* C13: a stored Run whose error is set has status "failed", and a Run whose
\* status is "running" or "completed" has no error set.
C13_ErrorOnlyWhenFailed ==
    \A r \in DOMAIN runs :
        /\ runs[r].status \in {"running", "completed", "failed"}
        /\ runs[r].error # NoError => runs[r].status = "failed"
        /\ runs[r].status \in {"running", "completed"} => runs[r].error = NoError

\* a run that failed when its second visit raised, with its error set
C13_Witness ==
    \E r \in DOMAIN runs :
        /\ runs[r].status = "failed"
        /\ runs[r].error = NodeFailure
        /\ Len(runs[r].execution_log) = 2

\* C14: when a run has ended, the mapping its caller passed as initial_state
\* holds the keys and values it held when the call was made, the items of the
\* lists among its values included.
C14_InitialStateNotMutated ==
    \A r \in DOMAIN frames :
        frames[r].pc = "done" =>
            Deep(frames[r].initial_state, heap) =
                Deep(frames[r].initial_state, frames[r].heap_at_call)

\* C15: registering a name that is already registered raises and leaves the
\* registry as it was; no step removes a name from the registry or changes the
\* capability of a registered name; get_node of a name that is not registered
\* raises.
C15_RegistryOnlyGrows ==
    [][/\ \A reg \in StoreRegistrations :
             (register(reg[1], reg[2]) /\ reg[1] \in DOMAIN node_registry) =>
                 /\ node_registry' = node_registry
                 /\ ret'.op = "register"
                 /\ ret'.raised
                 /\ ret'.error = [kind |-> "Node is already registered",
                                  detail |-> <<reg[1]>>]
       /\ \A name \in DOMAIN node_registry :
             /\ name \in DOMAIN node_registry'
             /\ node_registry'[name] = node_registry[name]
       /\ \A name \in NodeNames :
             (get_node(name) /\ name \notin DOMAIN node_registry) =>
                 /\ node_registry' = node_registry
                 /\ ret'.op = "get_node"
                 /\ ret'.raised
                 /\ ret'.error = [kind |-> "Node is not registered",
                                  detail |-> <<name>>]]_vars

\* a second registration of a was refused after a graph over a was stored
C15_Witness ==
    /\ ret.op = "register"
    /\ ret.raised
    /\ ret.error.detail = <<"a">>
    /\ "a" \in DOMAIN node_registry
    /\ graphs # Empty

\* C16: in a run of the graph whose single conditional node "check" has the map
\* {"true": null, "false": "check"}, when the node first decides True on its
\* k-th invocation and k <= max_iterations (k = max_iterations included) the run
\* ends "completed" with an execution_log of exactly k entries; when k is
\* larger, or the node never decides True, it ends "failed" with the
\* iteration-limit error, raised at the start of pass max_iterations + 1 after
\* max_iterations visits.
C16_CheckLoopBoundary ==
    \A r \in DOMAIN frames :
        LET cap == node_registry["check"]
            max == frames[r].max_iterations
            limited == /\ runs[r].status = "failed"
                       /\ runs[r].error = IterationLimitError(max)
                       /\ Len(runs[r].execution_log) = max
                       /\ frames[r].iter_count = max + 1
        IN  /\ runs[r].error = IterationLimitError(max) => frames[r].iter_count = max + 1
            /\ frames[r].pc = "done" =>
                  /\ \A k \in 1..(MaxIterations + 1) :
                        cap = PassOnKth("check", k) =>
                            IF k <= max
                            THEN /\ runs[r].status = "completed"
                                 /\ runs[r].error = NoError
                                 /\ Len(runs[r].execution_log) = k
                                 /\ \A i \in 1..k :
                                       frames[r].history[i].state["check"] =
                                           IF i = k THEN VTrue ELSE VFalse
                            ELSE limited
                  /\ cap = SetAndReturn("check", VFalse) => limited

\* a run that completed because the check passed on the last visit the limit
\* allows
C16_Witness ==
    \E r \in DOMAIN frames :
        /\ frames[r].pc = "done"
        /\ frames[r].max_iterations = MaxIterations
        /\ node_registry["check"] = PassOnKth("check", MaxIterations)
        /\ runs[r].status = "completed"
        /\ Len(runs[r].execution_log) = MaxIterations

\* run.state as it was when the i-th visit of r began
StateBefore(r, i) ==
    IF i = 1 THEN frames[r].initial_state ELSE frames[r].history[i - 1].state

\* the i-th visit of r was of a conditional node whose capability returned and
\* whose decision could be resolved
Resolved(r, i) ==
    /\ frames[r].history[i].invoked
    /\ ~frames[r].history[i].raised
    /\ frames[r].history[i].node \in DOMAIN graphs[runs[r].graph_id].conditional_edges
    /\ ~Undecided(r, i)

\* C17: after a visit of a node that is a key of conditional_edges, the run
\* goes on to the node it would go on to if the graph had no linear edges at
\* all; when the conditional map yields no node the run stops there and ends
\* "completed", also when edges maps the node to a successor.
C17_ConditionalOverridesEdges ==
    \A r \in DOMAIN frames :
        \A i \in 1..Len(frames[r].history) :
            Resolved(r, i) =>
                LET graph  == graphs[runs[r].graph_id]
                    h      == frames[r].history[i]
                    target == NextNode([graph EXCEPT !.edges = Empty], h.node, h.state).next
                IN  /\ NextVisited(r, i) = target
                    /\ target \in {Null} \cup
                           {graph.conditional_edges[h.node][k] :
                               k \in DOMAIN graph.conditional_edges[h.node]}
                    /\ target = Null =>
                          /\ i = Len(frames[r].history)
                          /\ runs[r].status # "failed"
                          /\ frames[r].pc = "done" => runs[r].status = "completed"

\* a conditional node with a linear edge to b resolved to no node, and the run
\* completed without visiting b
C17_Witness ==
    \E r \in DOMAIN frames :
        /\ frames[r].pc = "done"
        /\ runs[r].status = "completed"
        /\ runs[r].execution_log = <<"a">>
        /\ Resolved(r, 1)
        /\ Get(graphs[runs[r].graph_id].edges, "a") = "b"

\* C18: after a visit whose capability returned, run.state is the returned dict
\* when a dict was returned (no key of the previous state survives unless the
\* returned dict has it) and otherwise the dict that was passed in, as the call
\* left it; the decision of a conditional node is read from that state.
C18_StateReplacedNotMerged ==
    \A r \in DOMAIN frames :
        \A i \in 1..Len(frames[r].history) :
            LET h     == frames[r].history[i]
                graph == graphs[runs[r].graph_id]
                cap   == node_registry[h.node]
                prev  == StateBefore(r, i)
            IN  (h.invoked /\ ~h.raised) =>
                    /\ cap.kind = "replace" => h.state = (cap.key :> cap.val)
                    /\ cap.kind = "set" => h.state = Put(prev, cap.key, cap.val)
                    /\ cap.kind = "mutate" =>
                          h.state = Put(prev, cap.key, cap.val) /\ h.state = h.arg
                    /\ cap.kind = "noop" => h.state = prev /\ h.state = h.arg
                    /\ i = Len(frames[r].history) => runs[r].state = h.state
                    /\ h.node \in DOMAIN graph.conditional_edges =>
                          IF h.node \in DOMAIN h.state \/
                             "default" \in DOMAIN graph.conditional_edges[h.node]
                          THEN NextVisited(r, i) =
                                   CondTarget(graph.conditional_edges[h.node],
                                              IF h.node \in DOMAIN h.state
                                              THEN ResolvedKey(r, i) ELSE "default")
                          ELSE frames[r].exc =
                                   [kind |-> "Conditional node did not set state",
                                    detail |-> <<h.node>>]

\* the conditional node a returned a new dict without the key a that the state
\* held before the call
C18_Witness ==
    \E r \in DOMAIN frames :
        /\ Len(frames[r].history) >= 1
        /\ frames[r].history[1].node = "a"
        /\ node_registry["a"].kind = "replace"
        /\ "a" \in DOMAIN frames[r].initial_state
        /\ "a" \notin DOMAIN frames[r].history[1].state
        /\ "a" \in DOMAIN graphs[runs[r].graph_id].conditional_edges

\* C19: when the node of a visit is not in the registry as the visit begins, the
\* node is in the log all the same, as its last entry, no capability is invoked
\* and no later node visited, the state is as it was before the visit, and the
\* run ends "failed" with the unknown-node error naming the node.
C19_UnknownNodeLoggedThenFails ==
    \A r \in DOMAIN frames :
        \A i \in 1..Len(frames[r].history) :
            ~frames[r].history[i].invoked =>
                LET node == frames[r].history[i].node
                IN  /\ i = Len(frames[r].history)
                    /\ frames[r].pc # "loop"
                    /\ runs[r].execution_log = NodesOf(frames[r].history)
                    /\ Last(runs[r].execution_log) = node
                    /\ ~frames[r].history[i].raised
                    /\ runs[r].state = StateBefore(r, i)
                    /\ frames[r].history[i].arg = StateBefore(r, i)
                    /\ runs[r].status # "completed"
                    /\ frames[r].exc = [kind   |-> "Node function not found in registry",
                                        detail |-> <<node>>]
                    /\ frames[r].pc = "done" =>
                          /\ runs[r].status = "failed"
                          /\ runs[r].error = frames[r].exc

\* a run whose first node changed the state and led on to a node that was not
\* registered
C19_Witness ==
    \E r \in DOMAIN frames :
        /\ frames[r].pc = "done"
        /\ Len(frames[r].history) = 2
        /\ ~frames[r].history[2].invoked
        /\ frames[r].history[2].node \notin DOMAIN node_registry
        /\ runs[r].state # frames[r].initial_state

\* C20: create_graph rejects a payload only for an unregistered node or for its
\* entry node, never for the targets of its edges; a visit of a node that is
\* not among the graph's declared nodes invokes no capability, and the run of
\* such a visit ends "failed".
C20_UndeclaredTargetFails ==
    /\ (ret.op = "create_graph" /\ ret.raised) =>
          ret.error.kind \in {"Nodes not found in registry",
                              "entry_node is not listed in nodes"}
    /\ \A r \in DOMAIN frames :
          \A i \in 1..Len(frames[r].history) :
              frames[r].history[i].node \notin Range(graphs[runs[r].graph_id].nodes) =>
                  /\ ~frames[r].history[i].invoked
                  /\ runs[r].status # "completed"
                  /\ frames[r].pc = "done" => runs[r].status = "failed"

\* C21: a create_graph call whose payload has both a declared node that is not
\* registered and an entry node outside its nodes raises the unknown-nodes
\* error; the invalid-entry-node error is raised only when every declared node
\* is registered, and then names the entry node.
C21_RegistryCheckedBeforeEntry ==
    [][\A payload \in StorePayloads :
          create_graph(payload, 1..MaxGraphs) =>
              LET unknown == \E n \in Range(payload.nodes) : n \notin DOMAIN node_registry
                  stray   == payload.entry_node \notin Range(payload.nodes)
              IN  /\ (unknown /\ stray) =>
                        /\ ret'.raised
                        /\ ret'.error.kind = "Nodes not found in registry"
                  /\ ret'.error.kind = "entry_node is not listed in nodes" =>
                        ~unknown /\ stray
                  /\ (~unknown /\ stray) =>
                        /\ ret'.raised
                        /\ ret'.error = [kind   |-> "entry_node is not listed in nodes",
                                         detail |-> <<payload.entry_node>>]]_vars

\* a payload with entry node b was rejected for its entry node, a being
\* registered and b not
C21_Witness ==
    /\ ret.op = "create_graph"
    /\ ret.raised
    /\ ret.error = [kind |-> "entry_node is not listed in nodes", detail |-> <<"b">>]
    /\ DOMAIN node_registry = {"a"}

\* the pair of nodes (m, n) is a transition of the graph: n is a target in the
\* conditional map of m when m is a key of conditional_edges, and otherwise the
\* linear edge of m
Justified(graph, m, n) ==
    IF m \in DOMAIN graph.conditional_edges
    THEN \E k \in DOMAIN graph.conditional_edges[m] : graph.conditional_edges[m][k] = n
    ELSE m \in DOMAIN graph.edges /\ graph.edges[m] = n

\* C22: the execution_log of a run only grows, by appending; a log that is not
\* empty starts with the entry node of the run's graph, and every two
\* consecutive entries are a transition of the graph.
C22_LogFollowsGraph ==
    /\ [][\A r \in DOMAIN runs :
             \/ runs'[r].execution_log = runs[r].execution_log
             \/ /\ Len(runs'[r].execution_log) = Len(runs[r].execution_log) + 1
                /\ SubSeq(runs'[r].execution_log, 1, Len(runs[r].execution_log)) =
                       runs[r].execution_log]_vars
    /\ [](\A r \in DOMAIN runs :
             LET log   == runs[r].execution_log
                 graph == graphs[runs[r].graph_id]
             IN  /\ log # <<>> => log[1] = graph.entry_node
                 /\ \A i \in 1..(Len(log) - 1) : Justified(graph, log[i], log[i + 1]))

\* a run that started at b went on along a linear edge to a conditional node
C22_Witness ==
    \E r \in DOMAIN runs :
        LET graph == graphs[runs[r].graph_id]
        IN  /\ runs[r].execution_log = <<"b", "a">>
            /\ graph.entry_node = "b"
            /\ "a" \in DOMAIN graph.conditional_edges

====
